---- MODULE Spec2Model ----
(***************************************************************************)
(* Model of gistapi.py: a Flask application with a /ping endpoint and a    *)
(* /api/v1/search endpoint that lists a user's gists, fetches each gist's  *)
(* content and reports the URLs of the gists whose content matches a       *)
(* regular expression.                                                     *)
(*                                                                         *)
(* Strings that the code inspects character by character (patterns and    *)
(* gist contents) are sequences of one-character strings.  URLs are the    *)
(* sequence of the pieces that str.format joins.                           *)
(***************************************************************************)
EXTENDS Integers, Sequences, FiniteSets, TLC

VARIABLES
    pc,         \* position of the search handler
    post_data,  \* request.get_json() of the request being served
    gists,      \* the value iterated by the for loop
    i,          \* index in gists of the next item of the for loop
    gist_id,    \* gist['id'] of the item being processed
    matched,    \* the list of matching URLs
    status,     \* 'success' or 'fail'
    response,   \* what the search handler answered
    calls,      \* outbound requests.get calls of this request, in order
    inflight,   \* URLs of the outbound content fetches not yet answered
    seen,       \* per processed item: the item and the reply to its fetch
    listed,     \* how the call of gists_for_user ended, once made
    pinged,     \* the last answer of /ping and where the search stood then
    rm_pc,      \* position inside regex_match
    rm_content, \* regex_match argument
    rm_pattern, \* regex_match argument
    rm_p,       \* the compiled pattern
    rm_ret      \* the value returned by regex_match

searchVars == <<pc, post_data, gists, i, gist_id, matched, status, response,
                calls, inflight, seen, listed, pinged>>
rmVars == <<rm_pc, rm_content, rm_pattern, rm_p, rm_ret>>
vars == <<pc, post_data, gists, i, gist_id, matched, status, response,
          calls, inflight, seen, listed, pinged, rm_pc, rm_content, rm_pattern,
          rm_p, rm_ret>>

(***************************************************************************)
(* Bounds                                                                  *)
(***************************************************************************)
MaxGists == 2
MaxPatLen == 3
MaxContentLen == 3

RECURSIVE SeqsUpTo(_, _)
SeqsUpTo(S, n) ==
    IF n = 0 THEN {<<>>}
    ELSE LET shorter == SeqsUpTo(S, n - 1)
         IN  shorter \cup {Append(s, c) : s \in shorter, c \in S}

(***************************************************************************)
(* re.compile and pattern.match                                            *)
(***************************************************************************)
Newline == "\n"
PatternChars == {"h", "x", ".", "*", "^"}
ContentChars == {"h", "x", Newline}

Item(op, ch) == [op |-> op, ch |-> ch, star |-> FALSE]

\* sre_parse over the characters of the pattern: '^' is AT_BEGINNING, '.' is
\* ANY, '*' repeats the previous item and is an error when there is nothing
\* to repeat or when the previous item is already a repeat.
RECURSIVE sre_parse(_, _, _)
sre_parse(pattern, k, items) ==
    IF k > Len(pattern) THEN [raised |-> FALSE, items |-> items]
    ELSE LET c == pattern[k] IN
         IF c = "*" THEN
            IF items = <<>> \/ items[Len(items)].op = "at"
            THEN [raised |-> TRUE, items |-> <<>>]
            ELSE IF items[Len(items)].star
            THEN [raised |-> TRUE, items |-> <<>>]
            ELSE sre_parse(pattern, k + 1,
                     [items EXCEPT ![Len(items)].star = TRUE])
         ELSE IF c = "^" THEN sre_parse(pattern, k + 1, Append(items, Item("at", c)))
         ELSE IF c = "." THEN sre_parse(pattern, k + 1, Append(items, Item("any", c)))
         ELSE sre_parse(pattern, k + 1, Append(items, Item("lit", c)))

re_compile(pattern) == sre_parse(pattern, 1, <<>>)

CharMatches(item, c) ==
    CASE item.op = "any" -> c # Newline
      [] item.op = "lit" -> c = item.ch
      [] OTHER -> FALSE

\* Length of the longest run of characters from pos on that item accepts.
RECURSIVE Run(_, _, _)
Run(item, content, pos) ==
    IF pos <= Len(content) /\ CharMatches(item, content[pos])
    THEN 1 + Run(item, content, pos + 1)
    ELSE 0

\* The backtracking matcher: do items[k..] match content from index pos on
\* (pos is 1-based, so pos = 1 is position 0 of the string)?
RECURSIVE sre_match(_, _, _, _)
sre_match(items, k, content, pos) ==
    IF k > Len(items) THEN TRUE
    ELSE LET item == items[k] IN
         IF item.op = "at" THEN pos = 1 /\ sre_match(items, k + 1, content, pos)
         ELSE IF item.star
         THEN \E n \in 0..Run(item, content, pos) :
                  sre_match(items, k + 1, content, pos + n)
         ELSE /\ pos <= Len(content)
              /\ CharMatches(item, content[pos])
              /\ sre_match(items, k + 1, content, pos + 1)

\* p.search(content): the pattern is tried at every start position.
p_search(items, content) ==
    \E start \in 1..(Len(content) + 1) : sre_match(items, 1, content, start)

\* p.match(content): the pattern is tried at position 0 only.
p_match(items, content) == sre_match(items, 1, content, 1)

\* regex_match(content, pattern): raised, or the Boolean it returns.
regex_match(content, pattern) ==
    LET p == re_compile(pattern) IN
    IF p.raised THEN [raised |-> TRUE, value |-> FALSE]
    ELSE [raised |-> FALSE, value |-> p_match(p.items, content)]

(***************************************************************************)
(* The outside world: request bodies and the replies of the GitHub API     *)
(***************************************************************************)
Usernames == {"u1", "u2"}
GistIds == {"g1", "g2"}
SearchPatterns == {<<"h">>, <<"*">>, <<".", "*", "h">>}
Contents == {<<"h">>, <<"x", "h">>}

NoRequest == [norequest |-> TRUE]
EmptyObject == [o \in {} |-> TRUE]

\* JSON bodies of POST /api/v1/search: both fields, one of them, or neither.
Bodies ==
    {[username |-> u, pattern |-> p] : u \in Usernames, p \in SearchPatterns}
    \cup {[username |-> u] : u \in Usernames}
    \cup {[pattern |-> p] : p \in SearchPatterns}
    \cup {EmptyObject}

\* Elements of the array GET /users/:username/gists answers with; an element
\* without 'id' is not something GitHub sends but nothing in the code
\* excludes it.
Elements == {[id |-> g] : g \in GistIds} \cup {[description |-> "d"]}

\* The body GitHub sends with a 404 or a 403: a JSON object.  Iterating a
\* dict yields its keys, in either order.
ErrorObjectKeys ==
    {<<[key |-> "message"], [key |-> "documentation_url"]>>,
     <<[key |-> "documentation_url"], [key |-> "message"]>>}

\* What requests.get(gists_url) followed by response.json() can do: raise,
\* or give what the for loop will iterate.
ListReplies ==
    {[raises |-> TRUE, json |-> <<>>]}
    \cup {[raises |-> FALSE, json |-> a] : a \in SeqsUpTo(Elements, MaxGists)}
    \cup {[raises |-> FALSE, json |-> ks] : ks \in ErrorObjectKeys}

\* Entries of the 'files' mapping of a gist, in the order keys() gives them.
AsciiNames == {"a.txt", "b.txt"}
FileEntries ==
    {[name |-> "a.txt", file |-> [content |-> c]] : c \in Contents}
    \cup {[name |-> "a.txt", file |-> [size |-> 0]],
          [name |-> "\\u00e9.txt", file |-> [content |-> <<"h">>]]}
FileLists ==
    {<<>>} \cup {<<f>> : f \in FileEntries}
    \cup {<<[name |-> "a.txt", file |-> [content |-> <<"x", "h">>]],
            [name |-> "b.txt", file |-> [content |-> <<"h">>]]>>}

\* What requests.get(id_url) followed by response.json() can do.
FetchReplies ==
    {[raises |-> TRUE, json |-> EmptyObject]}
    \cup {[raises |-> FALSE, json |-> [message |-> "rate limit"]]}
    \cup {[raises |-> FALSE, json |-> [files |-> fl]] : fl \in FileLists}

NoCall == [nocall |-> TRUE]

(***************************************************************************)
(* The functions of gistapi.py                                             *)
(***************************************************************************)
PongReply == [http |-> 200, body |-> "pong"]
NoPing == [http |-> 0, body |-> "", at |-> ""]

\* A ping that reports the failure of the search being served.
ping_stateful ==
    IF response.http = 500
    THEN [http |-> 500, body |-> "Internal Server Error"]
    ELSE PongReply

\* ping(): a static response.
ping == PongReply

gists_url(username) == <<"https://api.github.com/users", username, "gists">>
id_url(id) == <<"https://api.github.com/gists", id>>
return_url(username, id) == <<"https://gist.github.com", username, id>>

\* A gists_for_user that swallows the exception and reports no gists.
gists_for_user_swallow(username, reply) ==
    IF reply.raises THEN [raised |-> FALSE, value |-> <<>>]
    ELSE [raised |-> FALSE, value |-> reply.json]

\* gists_for_user(username): the parsed reply, or the exception of
\* requests.get / response.json(), which nothing catches.
gists_for_user(username, reply) ==
    IF reply.raises THEN [raised |-> TRUE, value |-> <<>>]
    ELSE [raised |-> FALSE, value |-> reply.json]

\* retrieve_content(gist_id), given the reply to its requests.get.  keys()[0]
\* and str() are those of Python 2, where keys() is a list in the order of
\* the dict and str() of a non-ASCII unicode key raises.
retrieve_content(reply) ==
    IF reply.raises THEN [raised |-> TRUE, value |-> <<>>]
    ELSE IF "files" \notin DOMAIN reply.json
    THEN [raised |-> TRUE, value |-> <<>>]                \* KeyError
    ELSE LET get_data == reply.json.files IN
         IF get_data = <<>> THEN [raised |-> TRUE, value |-> <<>>] \* IndexError
         ELSE IF get_data[1].name \notin AsciiNames
         THEN [raised |-> TRUE, value |-> <<>>]           \* str() of the key
         ELSE LET g_file == get_data[1].file IN
              IF "content" \notin DOMAIN g_file
              THEN [raised |-> TRUE, value |-> <<>>]      \* KeyError
              ELSE [raised |-> FALSE, value |-> g_file.content]

\* Only the username is looked up before the list call.
get_args_username_only(data) ==
    IF "username" \notin DOMAIN data THEN [raised |-> TRUE]
    ELSE [raised |-> FALSE]

\* The arguments of the request: post_data['username'], post_data['pattern'].
get_args(data) ==
    IF "username" \notin DOMAIN data THEN [raised |-> TRUE]
    ELSE IF "pattern" \notin DOMAIN data THEN [raised |-> TRUE]
    ELSE [raised |-> FALSE]

username == post_data.username
pattern == post_data.pattern

\* status starts as 'fail'.
search_locals_fail == [matched |-> <<>>, status |-> "fail"]

\* result = {}; matched = []; status = 'success'
search_locals == [matched |-> <<>>, status |-> "success"]

\* An except clause that also drops the matches collected so far.
except_clause_clear(st, m) == [status |-> "fail", matched |-> <<>>]

\* except Exception: status = 'fail'
except_clause(st, m) == [status |-> "fail", matched |-> m]

\* The URL is inserted at the front of matched.
try_rest_prepend(st, m, uname, pat, id, reply) ==
    LET content == retrieve_content(reply) IN
    IF content.raised THEN except_clause(st, m)
    ELSE LET r == regex_match(content.value, pat) IN
         IF r.raised THEN except_clause(st, m)
         ELSE IF r.value
         THEN [status |-> st, matched |-> <<return_url(uname, id)>> \o m]
         ELSE [status |-> st, matched |-> m]

\* The URL is appended whatever regex_match returns.
try_rest_always_append(st, m, uname, pat, id, reply) ==
    LET content == retrieve_content(reply) IN
    IF content.raised THEN except_clause(st, m)
    ELSE LET r == regex_match(content.value, pat) IN
         IF r.raised THEN except_clause(st, m)
         ELSE [status |-> st, matched |-> Append(m, return_url(uname, id))]

\* A gist processed without exception sets status back to 'success'.
try_rest_reset(st, m, uname, pat, id, reply) ==
    LET content == retrieve_content(reply) IN
    IF content.raised THEN except_clause(st, m)
    ELSE LET r == regex_match(content.value, pat) IN
         IF r.raised THEN except_clause(st, m)
         ELSE IF r.value
         THEN [status |-> "success",
               matched |-> Append(m, return_url(uname, id))]
         ELSE [status |-> "success", matched |-> m]

\* The rest of the try block once requests.get(id_url) has answered.
try_rest(st, m, uname, pat, id, reply) ==
    LET content == retrieve_content(reply) IN
    IF content.raised THEN except_clause(st, m)
    ELSE LET r == regex_match(content.value, pat) IN
         IF r.raised THEN except_clause(st, m)
         ELSE IF r.value
         THEN [status |-> st, matched |-> Append(m, return_url(uname, id))]
         ELSE [status |-> st, matched |-> m]

NoResponse == [http |-> 0]
UnhandledError == [http |-> 500]
\* jsonify(result)
jsonify(st, uname, pat, m) ==
    [http |-> 200, mimetype |-> "application/json",
     body |-> [status |-> st, username |-> uname, pattern |-> pat,
               matches |-> m]]

(***************************************************************************)
(* The service                                                             *)
(***************************************************************************)
SearchIdle ==
    /\ pc = "idle"
    /\ post_data = NoRequest
    /\ gists = <<>>
    /\ i = 0
    /\ gist_id = ""
    /\ matched = <<>>
    /\ status = ""
    /\ response = NoResponse
    /\ calls = <<>>
    /\ inflight = 0
    /\ seen = <<>>
    /\ listed = "no"

RegexOff ==
    /\ rm_pc = "off"
    /\ rm_content = <<>>
    /\ rm_pattern = <<>>
    /\ rm_p = <<>>
    /\ rm_ret = FALSE

Init == SearchIdle /\ pinged = NoPing /\ RegexOff

\* GET /ping, served whatever the search handler is doing.
ping_request ==
    /\ pinged' = [http |-> ping.http, body |-> ping.body, at |-> pc]
    /\ UNCHANGED <<pc, post_data, gists, i, gist_id, matched, status,
                   response, calls, inflight, seen, listed>>
    /\ UNCHANGED rmVars

\* POST /api/v1/search up to the call of gists_for_user.
search_get_json(body) ==
    /\ pc = "idle"
    /\ post_data' = body
    /\ IF get_args(body).raised
       THEN /\ response' = UnhandledError
            /\ pc' = "done"
            /\ UNCHANGED <<matched, status>>
       ELSE /\ matched' = search_locals.matched
            /\ status' = search_locals.status
            /\ pc' = "list"
            /\ UNCHANGED response
    /\ UNCHANGED <<gists, i, gist_id, calls, inflight, seen, listed, pinged>>
    /\ UNCHANGED rmVars

\* gists = gists_for_user(username)
search_gists_for_user(reply) ==
    /\ pc = "list"
    /\ calls' = Append(calls, gists_url(username))
    /\ listed' = IF reply.raises THEN "raised" ELSE "returned"
    /\ LET g == gists_for_user(username, reply) IN
       IF g.raised
       THEN /\ response' = UnhandledError
            /\ pc' = "done"
            /\ UNCHANGED <<gists, i>>
       ELSE /\ gists' = g.value
            /\ i' = 1
            /\ pc' = "loop"
            /\ UNCHANGED response
    /\ UNCHANGED <<post_data, gist_id, matched, status, inflight, seen, pinged>>
    /\ UNCHANGED rmVars

\* for gist in gists: gist_id = gist['id'], then retrieve_content sends its
\* request.
search_gist_id ==
    /\ pc = "loop"
    /\ i <= Len(gists)
    /\ LET gist == gists[i] IN
       IF "id" \notin DOMAIN gist
       THEN /\ status' = except_clause(status, matched).status
            /\ matched' = except_clause(status, matched).matched
            /\ seen' = Append(seen, [gist |-> gist, reply |-> NoCall])
            /\ i' = i + 1
            /\ UNCHANGED <<pc, gist_id, calls, inflight>>
       ELSE /\ gist_id' = gist.id
            /\ calls' = Append(calls, id_url(gist.id))
            /\ inflight' = inflight + 1
            /\ pc' = "fetch"
            /\ UNCHANGED <<status, matched, seen, i>>
    /\ UNCHANGED <<post_data, gists, response, listed, pinged>>
    /\ UNCHANGED rmVars

\* The request of retrieve_content is answered; the rest of the loop body.
search_retrieve_content(reply) ==
    /\ pc = "fetch"
    /\ inflight' = inflight - 1
    /\ LET r == try_rest(status, matched, username, pattern, gist_id, reply) IN
       /\ status' = r.status
       /\ matched' = r.matched
    /\ seen' = Append(seen, [gist |-> gists[i], reply |-> reply])
    /\ i' = i + 1
    /\ pc' = "loop"
    /\ UNCHANGED <<post_data, gists, gist_id, response, calls, listed,
                   pinged>>
    /\ UNCHANGED rmVars

\* The return statement indented into the for loop.
search_jsonify_in_loop ==
    /\ pc = "loop"
    /\ i > 1 \/ i > Len(gists)
    /\ response' = jsonify(status, username, pattern, matched)
    /\ pc' = "done"
    /\ UNCHANGED <<post_data, gists, i, gist_id, matched, status, calls,
                   inflight, seen, listed, pinged>>
    /\ UNCHANGED rmVars

\* The loop is over: the result is filled in and returned.
search_jsonify ==
    /\ pc = "loop"
    /\ i > Len(gists)
    /\ response' = jsonify(status, username, pattern, matched)
    /\ pc' = "done"
    /\ UNCHANGED <<post_data, gists, i, gist_id, matched, status, calls,
                   inflight, seen, listed, pinged>>
    /\ UNCHANGED rmVars

\* The handler has returned; nothing of the request is kept for the next one.
next_request ==
    /\ pc = "done"
    /\ pc' = "idle"
    /\ post_data' = NoRequest
    /\ gists' = <<>>
    /\ i' = 0
    /\ gist_id' = ""
    /\ matched' = <<>>
    /\ status' = ""
    /\ response' = NoResponse
    /\ calls' = <<>>
    /\ inflight' = 0
    /\ seen' = <<>>
    /\ listed' = "no"
    /\ UNCHANGED pinged
    /\ UNCHANGED rmVars

Next ==
    \/ ping_request
    \/ \E body \in Bodies : search_get_json(body)
    \/ \E reply \in ListReplies : search_gists_for_user(reply)
    \/ search_gist_id
    \/ \E reply \in FetchReplies : search_retrieve_content(reply)
    \/ search_jsonify
    \/ next_request

Spec == Init /\ [][Next]_vars

\* The handler runs to its end when every outbound call returns or raises.
FairSpec ==
    /\ Spec
    /\ WF_vars(\E reply \in ListReplies : search_gists_for_user(reply))
    /\ WF_vars(search_gist_id)
    /\ WF_vars(\E reply \in FetchReplies : search_retrieve_content(reply))
    /\ WF_vars(search_jsonify)

(***************************************************************************)
(* regex_match on its own, over all short contents and patterns            *)
(***************************************************************************)
\* A content in which a pattern occurs at position 1 only.
xhello == <<"x", "h", "e", "l", "l", "o">>
hello == <<"h", "e", "l", "l", "o">>

InitMatch ==
    /\ SearchIdle
    /\ pinged = NoPing
    /\ rm_pc = "call"
    /\ rm_content \in SeqsUpTo(ContentChars, MaxContentLen) \cup {xhello}
    /\ rm_pattern \in SeqsUpTo(PatternChars, MaxPatLen) \cup {hello}
    /\ rm_p = <<>>
    /\ rm_ret = FALSE

\* p = re.compile(pattern)
rm_compile ==
    /\ rm_pc = "call"
    /\ LET p == re_compile(rm_pattern) IN
       IF p.raised
       THEN /\ rm_pc' = "raised"
            /\ UNCHANGED rm_p
       ELSE /\ rm_pc' = "compiled"
            /\ rm_p' = p.items
    /\ UNCHANGED <<rm_content, rm_pattern, rm_ret>>
    /\ UNCHANGED searchVars

\* if p.match(content): return True, else: return False
rm_return ==
    /\ rm_pc = "compiled"
    /\ rm_ret' = p_match(rm_p, rm_content)
    /\ rm_pc' = "returned"
    /\ UNCHANGED <<rm_content, rm_pattern, rm_p>>
    /\ UNCHANGED searchVars

NextMatch == rm_compile \/ rm_return

SpecMatch == InitMatch /\ [][NextMatch]_vars

(***************************************************************************)
(* What the properties are stated with                                     *)
(***************************************************************************)
\* The pattern is one re.compile accepts: every '*' follows something that
\* can be repeated.
ValidPattern(pat) ==
    \A k \in 1..Len(pat) :
        pat[k] = "*" => (k > 1 /\ pat[k - 1] \notin {"*", "^"})

Accepts(ch, c) == IF ch = "." THEN c # Newline ELSE c = ch

\* Characters taken by the pattern characters before index k, when the
\* character at index j takes f[j] characters.
RECURSIVE Consumed(_, _, _)
Consumed(f, pat, k) ==
    IF k <= 1 THEN 0 ELSE Consumed(f, pat, k - 1) + f[k - 1]

\* The pattern matches a piece of content that starts at position start
\* (0-based): the content can be cut so that each pattern character takes
\* the characters it accepts.
OccursAt(content, pat, start) ==
    /\ ValidPattern(pat)
    /\ \E f \in [1..Len(pat) -> 0..Len(content)] :
           \A k \in 1..Len(pat) :
               LET off == start + Consumed(f, pat, k) IN
               CASE pat[k] = "*" -> f[k] = 0
                 [] pat[k] = "^" -> f[k] = 0 /\ off = 0
                 [] OTHER ->
                      /\ (k < Len(pat) /\ pat[k + 1] = "*") \/ f[k] = 1
                      /\ off + f[k] <= Len(content)
                      /\ \A j \in 1..f[k] : Accepts(pat[k], content[off + j])

Fetched(s) == "nocall" \notin DOMAIN s.reply
Raised(s, pat) ==
    \/ ~Fetched(s)
    \/ retrieve_content(s.reply).raised
    \/ ~ValidPattern(pat)
Matched(s, pat) ==
    /\ Fetched(s)
    /\ ~retrieve_content(s.reply).raised
    /\ OccursAt(retrieve_content(s.reply).value, pat, 0)

RECURSIVE ExpectedMatches(_, _, _)
ExpectedMatches(ss, uname, pat) ==
    IF ss = <<>> THEN <<>>
    ELSE LET rest == ExpectedMatches(Tail(ss), uname, pat) IN
         IF Matched(Head(ss), pat)
         THEN <<<<"https://gist.github.com", uname, Head(ss).gist.id>>>> \o rest
         ELSE rest

\* The content fetches the first n items of the listing ask for.
RECURSIVE ExpectedFetches(_, _)
ExpectedFetches(gs, n) ==
    IF n = 0 THEN <<>>
    ELSE IF "id" \in DOMAIN gs[n]
    THEN Append(ExpectedFetches(gs, n - 1),
                <<"https://api.github.com/gists", gs[n].id>>)
    ELSE ExpectedFetches(gs, n - 1)

Responded == response.http = 200

(***************************************************************************)
(* Properties                                                              *)
(***************************************************************************)
\* C1: the matches of a response are exactly the URLs
\* https://gist.github.com/{username}/{id} of the gists of the listing whose
\* content was fetched and matches the pattern, in listing order.
C1_MatchesExact ==
    Responded =>
        /\ Len(seen) = Len(gists)
        /\ \A k \in 1..Len(gists) : seen[k].gist = gists[k]
        /\ response.body.matches = ExpectedMatches(seen, username, pattern)

C1_Witness ==
    /\ Responded
    /\ Len(gists) = 2
    /\ Len(response.body.matches) = 2
    /\ response.body.matches[1] # response.body.matches[2]

\* C2: when one gist of the listing raises and another one, before or after
\* it, matches, the response has status 'fail' and holds the URL of the
\* matching gist.
C2_FailKeepsMatches ==
    (/\ Responded
     /\ \E k \in 1..Len(seen) : Raised(seen[k], pattern)
     /\ \E j \in 1..Len(seen) : Matched(seen[j], pattern))
    => /\ response.body.status = "fail"
       /\ \A j \in 1..Len(seen) :
              Matched(seen[j], pattern) =>
                  \E m \in 1..Len(response.body.matches) :
                      response.body.matches[m] =
                          <<"https://gist.github.com", username, seen[j].gist.id>>

C2_Witness ==
    /\ Responded
    /\ Len(seen) = 2
    /\ Matched(seen[1], pattern)
    /\ Raised(seen[2], pattern)
    /\ Fetched(seen[2])

C4_MissingFieldUnhandled ==
    (pc # "idle" /\ ("username" \notin DOMAIN post_data
                     \/ "pattern" \notin DOMAIN post_data))
    => /\ pc = "done"
       /\ response = UnhandledError
       /\ calls = <<>>
       /\ listed = "no"

C4_Witness ==
    /\ pc = "done"
    /\ "username" \in DOMAIN post_data
    /\ "pattern" \notin DOMAIN post_data

\* C5: an empty listing gives status 'success' and no matches, whatever the
\* username and the pattern, valid or not.
C5_EmptyListing ==
    (pc = "done" /\ listed = "returned" /\ gists = <<>>)
    => /\ Responded
       /\ response.body.status = "success"
       /\ response.body.matches = <<>>

C5_Witness ==
    /\ Responded
    /\ gists = <<>>
    /\ ~ValidPattern(pattern)

\* C6 as stated: a listing of one or more gists none of whose content
\* matches the pattern gives status 'success' and no matches.
C6_NoMatchSuccess ==
    (/\ Responded
     /\ Len(gists) >= 1
     /\ \A k \in 1..Len(seen) : ~Matched(seen[k], pattern))
    => /\ response.body.status = "success"
       /\ response.body.matches = <<>>

\* C6: a listing of one or more gists, each processed without exception
\* (its content is fetched and the pattern compiles) and none matching the
\* pattern, gives status 'success' and no matches.
C6_NoMatchNoRaiseSuccess ==
    (/\ Responded
     /\ Len(gists) >= 1
     /\ \A k \in 1..Len(seen) : ~Raised(seen[k], pattern)
     /\ \A k \in 1..Len(seen) : ~Matched(seen[k], pattern))
    => /\ response.body.status = "success"
       /\ response.body.matches = <<>>

C6_Witness ==
    /\ Responded
    /\ Len(gists) = 2
    /\ \A k \in 1..Len(seen) : ~Raised(seen[k], pattern)
    /\ \A k \in 1..Len(seen) : ~Matched(seen[k], pattern)
    /\ \E k \in 1..Len(seen) :
           \E start \in 1..Len(retrieve_content(seen[k].reply).value) :
               OccursAt(retrieve_content(seen[k].reply).value, pattern, start)

C8_PingPong ==
    pinged # NoPing => (pinged.http = 200 /\ pinged.body = "pong")

C8_Witness ==
    /\ pinged.at = "done"
    /\ pinged.http = 200
    /\ pc = "done"
    /\ response.http = 500

\* C9: from the start of the loop to the response, status is 'fail' exactly
\* when one of the items processed so far raised, so a later gist never sets
\* it back; the response holds nothing but status, username, pattern and
\* matches.
C9_StatusIffRaised ==
    /\ (pc \in {"loop", "fetch"} \/ Responded) =>
           /\ status \in {"success", "fail"}
           /\ status = "fail" <=>
                  \E k \in 1..Len(seen) : Raised(seen[k], pattern)
    /\ Responded =>
           /\ response.body.status = status
           /\ DOMAIN response.body =
                  {"status", "username", "pattern", "matches"}

C9_Witness ==
    /\ Responded
    /\ Len(seen) = 2
    /\ Raised(seen[1], pattern)
    /\ ~Raised(seen[2], pattern)
    /\ response.body.status = "fail"

\* C10: the content fetches are issued one per gist, in listing order, each
\* after the previous gist is done with, never two at a time; and once the
\* loop is entered the response is eventually produced, after every item of
\* the listing has been processed.
C10_SequentialState ==
    /\ inflight \in {0, 1}
    /\ inflight = 1 <=> pc = "fetch"
    /\ pc = "loop" =>
           /\ Len(seen) = i - 1
           /\ Tail(calls) = ExpectedFetches(gists, i - 1)
    /\ pc = "fetch" =>
           /\ Len(seen) = i - 1
           /\ Tail(calls) = ExpectedFetches(gists, i)
    /\ Responded =>
           /\ Len(seen) = Len(gists)
           /\ Tail(calls) = ExpectedFetches(gists, Len(gists))

C10_Sequential ==
    /\ []C10_SequentialState
    /\ (pc = "loop") ~> (Responded /\ Len(seen) = Len(gists))

C10_Witness ==
    /\ Responded
    /\ Len(gists) = 2
    /\ Len(calls) = 3
    /\ response.body.status = "fail"

====
